---------------------------- MODULE Spec2Model ----------------------------
(*************************************************************************)
(* verify_blocking.py: a script that opens one fixed file in text mode,  *)
(* reads it whole, searches the text with one regular expression under   *)
(* re.DOTALL and prints one of two fixed lines.                          *)
(*                                                                       *)
(* A byte of the file and a character of the decoded text are both       *)
(* written as a one-character string; the token "xFF" is the byte 0xFF   *)
(* (never valid in UTF-8) and "U+00FF" the character it decodes to under *)
(* latin-1.                                                              *)
(*************************************************************************)
EXTENDS Integers, Sequences, FiniteSets

(* ------------------------------ bounds ------------------------------ *)

\* fragments the environment appends to the file after its first writing
MaxAppends == 3

(* ------------------------ the pattern's literals --------------------- *)

\* 'Intent\.ACTION_VIEW, Intent\.ACTION_SEND -> \{'
Marker1 ==
    <<"I","n","t","e","n","t",".","A","C","T","I","O","N","_","V",
      "I","E","W",","," ","I","n","t","e","n","t",".","A","C","T",
      "I","O","N","_","S","E","N","D"," ","-",">"," ","{">>

\* 'runBlocking \{'
Marker2 ==
    <<"r","u","n","B","l","o","c","k","i","n","g"," ","{">>

\* 'copyToCacheSynchronous'
Marker3 ==
    <<"c","o","p","y","T","o","C","a","c","h","e","S","y","n","c",
      "h","r","o","n","o","u","s">>

FoundLine == "FOUND: Blocking call detected in ACTION_VIEW/SEND handler"

NotFoundLine == "NOT FOUND: Blocking call not detected in ACTION_VIEW/SEND handler"

(* ----------------------- the file's possible bytes ------------------- *)

\* 'runBlocking{'
Marker2NoSpace ==
    <<"r","u","n","B","l","o","c","k","i","n","g","{">>

\* 'Intent.ACTION_VIEW,Intent.ACTION_SEND -> {'
Marker1NoSpace ==
    <<"I","n","t","e","n","t",".","A","C","T","I","O","N","_","V",
      "I","E","W",",","I","n","t","e","n","t",".","A","C","T","I",
      "O","N","_","S","E","N","D"," ","-",">"," ","{">>

TxtDoSomething ==
    <<" ","d","o","S","o","m","e","t","h","i","n","g","(",")",";",
      " ">>

TxtUriClose ==
    <<"(","u","r","i",")"," ","}"," ","}">>

TxtAsyncCall ==
    <<" ","c","o","p","y","T","o","C","a","c","h","e","A","s","y",
      "n","c","(","u","r","i",")"," ","}">>

TxtOtherFun ==
    <<" ","s","h","o","w","(","u","r","i",")"," ","}","\r","\n",
      "}","\r","\n","f","u","n"," ","o","t","h","e","r","(",")",
      " ","{","\r","\n">>

TxtLowerCase ==
    <<" ","r","u","n","b","l","o","c","k","i","n","g"," ","{"," ",
      "c","o","p","y","t","o","c","a","c","h","e","s","y","n","c",
      "h","r","o","n","o","u","s">>

CloseNewline == <<"}", "\n">>

InvalidByte == <<"xFF">>

\* the spec's first scenario
ScenarioFound ==
    Marker1 \o TxtDoSomething \o Marker2 \o <<" ">> \o Marker3 \o TxtUriClose

\* the spec's second scenario
ScenarioNotFound == Marker1 \o TxtAsyncCall

\* the branch, closed by its brace, then the start of another function
ClosedBranch == Marker1 \o TxtOtherFun

\* the markers in another spacing and letter case
VariantSpelling == Marker1NoSpace \o TxtLowerCase

\* what the file holds when it is first written
Seeds == {<<>>, ScenarioFound, ScenarioNotFound, ClosedBranch, VariantSpelling}

\* what a later edit appends to it
Fragments == {Marker1, Marker2, Marker3, Marker2NoSpace, CloseNewline, InvalidByte}

\* the text encodings open() may default to
Encodings == {"utf-8", "latin-1"}

(* ------------------------ open(file_path, 'r') ----------------------- *)

\* universal newlines: "\r\n" and a lone "\r" are read as "\n"
TranslateNewlines(s) ==
    LET idx == SelectSeq([i \in 1..Len(s) |-> i],
                         LAMBDA i : ~(s[i] = "\n" /\ i > 1 /\ s[i - 1] = "\r"))
    IN  [k \in 1..Len(idx) |-> IF s[idx[k]] = "\r" THEN "\n" ELSE s[idx[k]]]

DecodeByte(b, enc) == IF b = "xFF" THEN "U+00FF" ELSE b

Decodable(bytes, enc) ==
    enc = "latin-1" \/ \A i \in 1..Len(bytes) : bytes[i] # "xFF"

\* errors='ignore': the bytes that do not decode are dropped
DecodeIgnoringErrors(bytes, enc) ==
    [ok |-> TRUE,
     text |-> TranslateNewlines(
                 SelectSeq(bytes, LAMBDA b : enc = "latin-1" \/ b # "xFF"))]

\* f.read() of a text-mode file: strict decoding, then newline translation
Decode(bytes, enc) ==
    IF Decodable(bytes, enc)
    THEN [ok |-> TRUE,
          text |-> TranslateNewlines(
                      [i \in 1..Len(bytes) |-> DecodeByte(bytes[i], enc)])]
    ELSE [ok |-> FALSE, text |-> <<>>]

(* ------------------- re.search(pattern, content, DOTALL) ------------- *)

\* the pattern without its middle literal
patternNoBlocking == <<Marker1, Marker3>>

\* the pattern with the middle literal cut before its space and brace
patternLoose == <<Marker1, SubSeq(Marker2, 1, 11), Marker3>>

\* the literals of the pattern; a lazy '.*?' stands between two of them
pattern == <<Marker1, Marker2, Marker3>>

flagsNone == {}

flags == {"DOTALL"}

\* '.' that stops at a closing brace, as '[^}]' would
DotMatchesNoBrace(c) == c # "}"

\* what '.' matches
DotMatches(c) == "DOTALL" \in flags \/ c # "\n"

\* the literal lit stands in s at position i (from 1)
LitAt(s, i, lit) ==
    /\ i >= 1
    /\ i + Len(lit) - 1 <= Len(s)
    /\ s[i] = lit[1]
    /\ SubSeq(s, i, i + Len(lit) - 1) = lit

Min(S) == CHOOSE x \in S : \A y \in S : x <= y

\* the positions a lazy '.*?' entered at j can stop at, nearest first: it
\* goes on over every character '.' matches
DotStarStops(s, j) ==
    j .. Min({q \in j..Len(s) : ~DotMatches(s[q])} \cup {Len(s) + 1})

\* The backtracking matcher on the rest of the pattern: the literals lits,
\* each after a lazy '.*?' when lazy is true (the first literal of the pattern
\* has none before it). The lazy quantifier tries the nearest stop first and
\* goes one character further each time the rest fails. The position after
\* the match, 0 when there is none.
RECURSIVE MatchRest(_, _, _, _)
MatchRest(s, j, lits, lazy) ==
    IF lits = <<>> THEN j
    ELSE LET lit == Head(lits)
             stops == IF lazy THEN DotStarStops(s, j) ELSE {j}
             good == {p \in stops :
                        /\ LitAt(s, p, lit)
                        /\ MatchRest(s, p + Len(lit), Tail(lits), TRUE) # 0}
         IN  IF good = {} THEN 0
             ELSE MatchRest(s, Min(good) + Len(lit), Tail(lits), TRUE)

\* a match anchored at position i
MatchAt(s, i) == MatchRest(s, i, pattern, FALSE)

NoMatch == [found |-> FALSE, start |-> 0, end |-> 0]

\* the scan over the start positions, leftmost first
SearchFrom(s, i) ==
    LET starts == {p \in i..(Len(s) + 1) : MatchAt(s, p) # 0}
    IN  IF starts = {} THEN NoMatch
        ELSE [found |-> TRUE, start |-> Min(starts),
              end |-> MatchAt(s, Min(starts))]

\* re.compile in place of re.search: an object that is always true
re_searchAlwaysTruthy(s) == [found |-> TRUE, start |-> 1, end |-> 1]

re_search(s) == SearchFrom(s, 1)

(* ------------------------------- state ------------------------------- *)

VARIABLES
    fsMode,      \* the file at file_path: "missing", "denied" or "ok"
    fsBytes,     \* its bytes
    encoding,    \* the platform's default text encoding
    appends,     \* fragments appended to the file so far
    pc,          \* where the process stands; "idle" when none has run
    handle,      \* f: "none", "open" or "closed"
    content,     \* content
    match,       \* match
    stdout,      \* the lines printed
    stderr,      \* the uncaught exception, "" when there is none
    exitCode,    \* the process's exit status, -1 while it has none
    steps,       \* the steps this process has taken, in order
    startFs,     \* the file as it was when this process started
    prev         \* what the process before this one left, on the same file

vars == <<fsMode, fsBytes, encoding, appends, pc, handle, content, match,
          stdout, stderr, exitCode, steps, startFs, prev>>

fsVars == <<fsMode, fsBytes, encoding, appends>>

NoRun == [ran |-> FALSE, stdout |-> <<>>, stderr |-> "", exitCode |-> -1]

Fs == [mode |-> fsMode, bytes |-> fsBytes]

Init ==
    /\ fsMode = "missing"
    /\ fsBytes = <<>>
    /\ encoding \in Encodings
    /\ appends = 0
    /\ pc = "idle"
    /\ handle = "none"
    /\ content = <<>>
    /\ match = NoMatch
    /\ stdout = <<>>
    /\ stderr = ""
    /\ exitCode = -1
    /\ steps = <<>>
    /\ startFs = [mode |-> "missing", bytes |-> <<>>]
    /\ prev = NoRun

\* no process is running
NoProcess == pc \in {"idle", "done", "aborted"}

(* --------------------------- the environment ------------------------- *)

\* The file changes only while no process runs. What an ended process left
\* says nothing about the changed file, so the change also forgets it.
Forget ==
    /\ pc' = "idle"
    /\ handle' = "none"
    /\ content' = <<>>
    /\ match' = NoMatch
    /\ stdout' = <<>>
    /\ stderr' = ""
    /\ exitCode' = -1
    /\ steps' = <<>>
    /\ startFs' = [mode |-> fsMode', bytes |-> fsBytes']
    /\ prev' = NoRun

\* somebody writes the file
EnvCreate ==
    /\ NoProcess
    /\ fsMode = "missing"
    /\ \E s \in Seeds : fsBytes' = s
    /\ fsMode' = "ok"
    /\ UNCHANGED <<encoding, appends>>
    /\ Forget

\* somebody appends to it
EnvAppend ==
    /\ NoProcess
    /\ fsMode = "ok"
    /\ appends < MaxAppends
    /\ \E f \in Fragments : fsBytes' = fsBytes \o f
    /\ appends' = appends + 1
    /\ UNCHANGED <<fsMode, encoding>>
    /\ Forget

\* somebody takes the read permission away
EnvDeny ==
    /\ NoProcess
    /\ fsMode = "ok"
    /\ fsMode' = "denied"
    /\ UNCHANGED <<fsBytes, encoding, appends>>
    /\ Forget

(* ----------------------------- the script ---------------------------- *)

\* python verify_blocking.py: a new process, nothing kept from the last one
Start ==
    /\ NoProcess
    /\ pc' = "start"
    /\ handle' = "none"
    /\ content' = <<>>
    /\ match' = NoMatch
    /\ stdout' = <<>>
    /\ stderr' = ""
    /\ exitCode' = -1
    /\ steps' = <<>>
    /\ startFs' = Fs
    /\ prev' = IF pc = "idle" THEN NoRun
               ELSE [ran |-> TRUE, stdout |-> stdout, stderr |-> stderr,
                     exitCode |-> exitCode]
    /\ UNCHANGED fsVars

\* the uncaught exception ends the process with a traceback
Abort(exc) ==
    /\ pc' = "aborted"
    /\ stderr' = exc
    /\ exitCode' = 1

\* open(file_path, 'w+'): the file is emptied as it is opened
OpenFileTruncating ==
    /\ pc = "start"
    /\ steps' = Append(steps, "open")
    /\ IF fsMode = "ok"
       THEN /\ handle' = "open"
            /\ pc' = "opened"
            /\ fsBytes' = <<>>
            /\ UNCHANGED <<stderr, exitCode, stdout>>
       ELSE /\ Abort(IF fsMode = "missing" THEN "FileNotFoundError"
                     ELSE "PermissionError")
            /\ UNCHANGED <<handle, stdout, fsBytes>>
    /\ UNCHANGED <<fsMode, encoding, appends, content, match, startFs, prev>>

\* try: open ... except OSError: print the second line and go on
OpenFileWithFallback ==
    /\ pc = "start"
    /\ steps' = Append(steps, "open")
    /\ IF fsMode = "ok"
       THEN /\ handle' = "open"
            /\ pc' = "opened"
            /\ UNCHANGED <<stderr, exitCode, stdout>>
       ELSE /\ pc' = "done"
            /\ stdout' = Append(stdout, NotFoundLine)
            /\ exitCode' = 0
            /\ UNCHANGED <<handle, stderr>>
    /\ UNCHANGED <<fsVars, content, match, startFs, prev>>

\* with open(file_path, 'r') as f:
OpenFile ==
    /\ pc = "start"
    /\ steps' = Append(steps, "open")
    /\ IF fsMode = "ok"
       THEN /\ handle' = "open"
            /\ pc' = "opened"
            /\ UNCHANGED <<stderr, exitCode>>
       ELSE /\ Abort(IF fsMode = "missing" THEN "FileNotFoundError"
                     ELSE "PermissionError")
            /\ UNCHANGED handle
    /\ UNCHANGED <<fsVars, content, match, stdout, startFs, prev>>

\* content = f.read()
ReadFile ==
    /\ pc = "opened"
    /\ steps' = Append(steps, "read")
    /\ LET d == Decode(fsBytes, encoding)
       IN  IF d.ok
           THEN /\ content' = d.text
                /\ pc' = "read"
           ELSE /\ content' = content
                /\ pc' = "raising"
    /\ UNCHANGED <<fsVars, handle, match, stdout, stderr, exitCode,
                   startFs, prev>>

\* f = open(...) with no 'with' block: nothing closes f
CloseFileLeak ==
    /\ pc \in {"read", "raising"}
    /\ steps' = Append(steps, "close")
    /\ IF pc = "read"
       THEN pc' = "loaded" /\ UNCHANGED <<stderr, exitCode>>
       ELSE Abort("UnicodeDecodeError")
    /\ UNCHANGED <<fsVars, handle, content, match, stdout, startFs, prev>>

\* the end of the 'with' block, left normally or by the exception
CloseFile ==
    /\ pc \in {"read", "raising"}
    /\ steps' = Append(steps, "close")
    /\ handle' = "closed"
    /\ IF pc = "read"
       THEN pc' = "loaded" /\ UNCHANGED <<stderr, exitCode>>
       ELSE Abort("UnicodeDecodeError")
    /\ UNCHANGED <<fsVars, content, match, stdout, startFs, prev>>

\* match = re.search(pattern, content, re.DOTALL)
Search ==
    /\ pc = "loaded"
    /\ steps' = Append(steps, "search")
    /\ match' = re_search(content)
    /\ pc' = "matched"
    /\ UNCHANGED <<fsVars, handle, content, stdout, stderr, exitCode,
                   startFs, prev>>

\* 'if not match:'
PrintedLineInverted(m) == IF m.found THEN NotFoundLine ELSE FoundLine

\* if match: ... else: ...
PrintedLine(m) == IF m.found THEN FoundLine ELSE NotFoundLine

\* print(...), after which the script ends
PrintResult ==
    /\ pc = "matched"
    /\ steps' = Append(steps, "print")
    /\ stdout' = Append(stdout, PrintedLine(match))
    /\ pc' = "done"
    /\ exitCode' = 0
    /\ UNCHANGED <<fsVars, handle, content, match, stderr, startFs, prev>>

Next ==
    \/ EnvCreate
    \/ EnvAppend
    \/ EnvDeny
    \/ Start
    \/ OpenFile
    \/ ReadFile
    \/ CloseFile
    \/ Search
    \/ PrintResult

Spec == Init /\ [][Next]_vars

(* ------------------- what the claims speak about --------------------- *)

\* the positions at which lit occurs in s
Occ(s, lit) == {i \in 1..Len(s) : LitAt(s, i, lit)}

\* the three literals occur in s one after the other, without overlap
ContainsInOrder(s) ==
    \E i \in Occ(s, Marker1) : \E j \in Occ(s, Marker2) : \E k \in Occ(s, Marker3) :
        i + Len(Marker1) <= j /\ j + Len(Marker2) <= k

\* some occurrence of Marker2 lies before some occurrence of Marker3
BlockingBeforeSync(s) ==
    \E j \in Occ(s, Marker2) : \E k \in Occ(s, Marker3) : j < k

\* opening braces minus closing braces in s[from..to]
BraceDepth(s, from, to) ==
    Cardinality({q \in from..to : s[q] = "{"})
      - Cardinality({q \in from..to : s[q] = "}"})

\* the three literals occur in order, and the brace that ends Marker1 is
\* closed again before Marker2 begins
ContainsInOrderUnnested(s) ==
    \E i \in Occ(s, Marker1) : \E j \in Occ(s, Marker2) : \E k \in Occ(s, Marker3) :
        /\ i + Len(Marker1) <= j
        /\ j + Len(Marker2) <= k
        /\ \E b \in (i + Len(Marker1))..(j - 1) :
               BraceDepth(s, i + Len(Marker1) - 1, b) = 0

\* the file the process started on can be opened and decoded
Readable == startFs.mode = "ok" /\ Decodable(startFs.bytes, encoding)

Ended == pc \in {"done", "aborted"}

AllSteps == <<"open", "read", "close", "search", "print">>

IsPrefix(a, b) == Len(a) <= Len(b) /\ a = SubSeq(b, 1, Len(a))

(* ------------------------------- claims ------------------------------ *)

\* C1: a run on a readable file ends normally with exit status 0 and exactly
\* one printed line, which is the FOUND line if and only if the search over
\* the whole decoded file finds a match, and the NOT FOUND line otherwise;
\* nothing is printed before the run ends.
C1_OneLineByMatch ==
    /\ Ended /\ Readable => pc = "done"
    /\ pc = "done" =>
         /\ exitCode = 0
         /\ Len(stdout) = 1
         /\ stdout[1] \in {FoundLine, NotFoundLine}
         /\ stdout[1] = FoundLine <=>
              re_search(Decode(startFs.bytes, encoding).text).found
    /\ pc # "done" => stdout = <<>>

C1_Witness ==
    /\ pc = "done"
    /\ stdout = <<FoundLine>>
    /\ match.start > 1
    /\ exitCode = 0

\* C2: whenever the text read contains Marker1, later Marker2 and later
\* Marker3, whatever lies between them, the FOUND line is printed; the
\* spec's first scenario is such a text.
C2_InOrderFound ==
    /\ pc = "done" /\ ContainsInOrder(content) => stdout = <<FoundLine>>
    /\ pc = "done" /\ startFs.bytes = ScenarioFound => stdout = <<FoundLine>>

C2_Witness ==
    /\ pc = "done"
    /\ ContainsInOrder(content)
    /\ \E q \in match.start..(match.end - 1) : content[q] = "\n"
    /\ stdout = <<FoundLine>>

\* C3: whenever the text read contains Marker1 but Marker3 does not occur,
\* or no Marker2 occurs before a Marker3, the NOT FOUND line is printed;
\* the spec's second scenario is such a text.
C3_NoBlockingNotFound ==
    /\ (/\ pc = "done"
        /\ Occ(content, Marker1) # {}
        /\ (Occ(content, Marker3) = {} \/ ~BlockingBeforeSync(content)))
         => stdout = <<NotFoundLine>>
    /\ pc = "done" /\ startFs.bytes = ScenarioNotFound => stdout = <<NotFoundLine>>

C3_Witness ==
    /\ pc = "done"
    /\ Occ(content, Marker1) # {}
    /\ Occ(content, Marker3) # {}
    /\ ~BlockingBeforeSync(content)
    /\ stdout = <<NotFoundLine>>

\* C4: when the file is missing, unreadable or cannot be decoded, the run
\* ends at the open or read step with the uncaught error and a non-zero
\* exit status; nothing is ever printed, the search is never reached and
\* no step is tried a second time.
C4_AbortWithoutOutput ==
    (pc # "idle" /\ ~Readable) =>
        /\ stdout = <<>>
        /\ match = NoMatch
        /\ pc \in {"start", "opened", "raising", "aborted"}
        /\ IsPrefix(steps, <<"open", "read", "close">>)
        /\ startFs.mode # "ok" /\ pc # "start" =>
               pc = "aborted" /\ steps = <<"open">> /\ handle = "none"
        /\ pc = "aborted" =>
               /\ exitCode = 1
               /\ stderr \in {"FileNotFoundError", "PermissionError",
                              "UnicodeDecodeError"}

C4_Witness ==
    /\ pc = "aborted"
    /\ startFs.mode = "denied"
    /\ stderr = "PermissionError"
    /\ stdout = <<>>

\* C5: on an empty file the NOT FOUND line is printed.
C5_EmptyNotFound ==
    (Ended /\ startFs = [mode |-> "ok", bytes |-> <<>>]) =>
        pc = "done" /\ stdout = <<NotFoundLine>>

C5_Witness ==
    /\ pc = "done"
    /\ startFs = [mode |-> "ok", bytes |-> <<>>]
    /\ content = <<>>

\* C6: a run leaves the file as it found it, and a run started after
\* another on the unchanged file ends as that one did: the same printed
\* line, the same error, the same exit status.
C6_SameOutcomeTwice ==
    /\ pc # "idle" => Fs = startFs
    /\ Ended /\ prev.ran =>
         /\ stdout = prev.stdout
         /\ stderr = prev.stderr
         /\ exitCode = prev.exitCode

C6_Witness ==
    /\ pc = "done"
    /\ prev.ran
    /\ prev.stdout = <<FoundLine>>
    /\ stdout = <<FoundLine>>

\* C7 as stated: a run fails only at the open step; once the file is open
\* the run ends by printing one of the two lines.
C7_OnlyOpenFails ==
    /\ pc = "aborted" => handle = "none"
    /\ Ended /\ startFs.mode = "ok" =>
         pc = "done" /\ stdout[1] \in {FoundLine, NotFoundLine}

\* C7 as amended: a run fails in exactly two ways, at the open step when
\* the file is missing or unreadable, and at the read step when its bytes
\* do not decode in the default encoding (the handle is closed and the
\* error is not caught); every other run ends by printing one of the two
\* lines.
C7_OpenOrDecodeFails ==
    /\ pc = "aborted" =>
         \/ /\ startFs.mode # "ok"
            /\ stderr = (IF startFs.mode = "missing" THEN "FileNotFoundError"
                         ELSE "PermissionError")
            /\ handle = "none"
         \/ /\ startFs.mode = "ok"
            /\ ~Decodable(startFs.bytes, encoding)
            /\ stderr = "UnicodeDecodeError"
            /\ handle = "closed"
            /\ steps = <<"open", "read", "close">>
    /\ Ended =>
         IF Readable
         THEN pc = "done" /\ stdout[1] \in {FoundLine, NotFoundLine}
         ELSE pc = "aborted"

C7_Witness ==
    /\ pc = "aborted"
    /\ startFs.mode = "ok"
    /\ stderr = "UnicodeDecodeError"
    /\ handle = "closed"

\* C8: the steps of a run are a prefix of open, read, close, search, print,
\* each taken once; the handle is open only between open and close; the
\* search has the whole decoded file before it; the line is printed last.
C8_LinearOrder ==
    /\ IsPrefix(steps, AllSteps)
    /\ handle = "open" <=> pc \in {"opened", "read", "raising"}
    /\ pc \in {"loaded", "matched", "done"} =>
         /\ handle = "closed"
         /\ content = Decode(startFs.bytes, encoding).text
    /\ pc = "loaded" => steps = SubSeq(AllSteps, 1, 3)
    /\ pc = "matched" => steps = SubSeq(AllSteps, 1, 4)
    /\ pc = "done" => steps = AllSteps
    /\ match # NoMatch => pc \in {"matched", "done"}
    /\ stdout # <<>> => pc = "done"

C8_Witness ==
    /\ pc = "matched"
    /\ handle = "closed"
    /\ match.found
    /\ stdout = <<>>

C10_FoundIffInOrder ==
    pc = "done" =>
        /\ stdout = <<FoundLine>> <=> ContainsInOrder(content)
        /\ stdout = <<NotFoundLine>> <=> ~ContainsInOrder(content)
        /\ match.found =>
             /\ LitAt(content, match.start, Marker1)
             /\ LitAt(content, match.end - Len(Marker3), Marker3)
             /\ \E j \in Occ(content, Marker2) :
                    /\ match.start + Len(Marker1) <= j
                    /\ j + Len(Marker2) <= match.end - Len(Marker3)

C10_Witness ==
    /\ pc = "done"
    /\ Occ(content, Marker1) # {}
    /\ BlockingBeforeSync(content)
    /\ ~ContainsInOrder(content)
    /\ stdout = <<NotFoundLine>>

=============================================================================
